---- MODULE Spec2Model ----
(***************************************************************************)
(* Distance Coding (DC) and Move-To-Front (MTF) of src/dc.rs.              *)
(*                                                                         *)
(* Four groups of variables, one per piece of the program:                 *)
(*   - the decoding side of an MTF encode/decode round trip (SpecMTF),     *)
(*   - the locals of one MTF::encode call, one swap per step (SpecScan     *)
(*     and SpecMTF),                                                       *)
(*   - the locals of dc::encode, one input position per step (SpecEnc and  *)
(*     Spec),                                                              *)
(*   - the locals of dc::decode / decode_simple, one loop phase per step   *)
(*     (Spec and SpecDecode).                                              *)
(***************************************************************************)
EXTENDS Integers, Sequences, FiniteSets, TLC

VARIABLES
    \* ---- MTF round trip (test::roundtrip_mtf) ----
    decTable,      \* symbols of the table MTF::decode is called on
    before,        \* the encoding table as it was before the last MTF::encode call
    lastSym,       \* argument of the last completed MTF::encode call
    lastRank,      \* its return value
    lastDec,       \* return value of the matching MTF::decode call
    calls,         \* number of encode/decode pairs made so far
    \* ---- one MTF::encode call, step by step ----
    scSymbols,     \* self.symbols (the encoding table)
    scSym,         \* sym
    scNext,        \* next
    scRank,        \* rank (u8)
    scShifts,      \* number of mem::swap executions so far
    scPc,          \* "idle", "entry", "loop", "found", "returned", "failed"
    \* ---- dc::encode ----
    input,         \* input
    ei,            \* position of the scan (the i of `for (i,&sym)`)
    enc,           \* locals of the run started on MTF::new()
    alt,           \* locals of a second run on another initial table
    ePc,           \* "scan", "sweep", "check", "done", "idle"
    \* ---- encode_simple result / decode_simple arguments ----
    alphabet,      \* symbols
    slice,         \* combined distance stream (`distances` of decode_simple)
    \* ---- dc::decode ----
    N,             \* output.len()
    output,        \* output, as a sequence (position k is output[k+1])
    di,            \* number of fn_dist calls made (di of decode_simple)
    mtf,           \* mtf.symbols
    next,          \* next
    E,             \* E
    i,             \* i
    stop,          \* stop
    future,        \* future
    seeds,         \* the initial distances fn_dist returned, in alphabet order
    insRank,       \* rank-1 of the last reinsertion (-1: none yet)
    result,        \* "none", "Ok", "Err", "assert", "oob"
    dPc            \* "call", "seed", "head", "pull", "reinsert", "finish", "done", "idle"

mtfVars  == <<decTable, before, lastSym, lastRank, lastDec, calls>>
scanVars == <<scSymbols, scSym, scNext, scRank, scShifts, scPc>>
encVars  == <<input, ei, enc, alt, ePc>>
wireVars == <<alphabet, slice>>
decVars  == <<N, output, di, mtf, next, E, i, stop, future, seeds, insRank, result, dPc>>
vars     == <<mtfVars, scanVars, encVars, wireVars, decVars>>

----------------------------------------------------------------------------
(* Types of src/dc.rs *)

TotalSymbols == 256
RankBits     == 8
RankMod      == 2 ^ RankBits          \* Rank = u8: arithmetic is modulo 2^8
Ranks        == 0 .. (TotalSymbols - 1)
Symbol       == 0 .. (TotalSymbols - 1)

\* MTF::new()
ZeroTable == [r \in Ranks |-> 0]

\* MTF::reset_alphabetical
Alphabetical == [r \in Ranks |-> r % RankMod]

\* a table left over from earlier use (neither zeroed nor a permutation)
StaleTable == [r \in Ranks |-> (3 * r + 1) % 5]

IsPermutation(t) == {t[r] : r \in Ranks} = Symbol

----------------------------------------------------------------------------
(* MTF::encode.  The locals of the loop of lines 68-75 are a record        *)
(*   [symbols, next, rank, pc], pc one of "loop", "found", "failed".       *)

\* ScanIter with the swap replaced by a plain store: `next` is not carried on
ScanIterStaleNext(st, sym) ==
    IF st.pc # "loop" THEN st
    ELSE IF st.symbols[st.rank] = sym
    THEN [symbols |-> [st.symbols EXCEPT ![st.rank] = st.next],
          next    |-> st.next,
          rank    |-> st.rank,
          pc      |-> "found"]
    ELSE [symbols |-> [st.symbols EXCEPT ![st.rank] = st.next],
          next    |-> st.next,
          rank    |-> (st.rank + 1) % RankMod,
          pc      |-> IF (st.rank + 1) % RankMod < TotalSymbols THEN "loop" ELSE "failed"]

\* lines 69-74: one iteration of the loop
ScanIter(st, sym) ==
    IF st.pc # "loop" THEN st
    ELSE IF st.symbols[st.rank] = sym
    THEN [symbols |-> [st.symbols EXCEPT ![st.rank] = st.next],
          next    |-> st.symbols[st.rank],
          rank    |-> st.rank,
          pc      |-> "found"]
    ELSE [symbols |-> [st.symbols EXCEPT ![st.rank] = st.next],
          next    |-> st.symbols[st.rank],
          rank    |-> (st.rank + 1) % RankMod,
          pc      |-> IF (st.rank + 1) % RankMod < TotalSymbols THEN "loop" ELSE "failed"]

\* the loop from st on, up to the point where the u8 counter is back at 0
RECURSIVE ScanLoop(_, _)
ScanLoop(st, sym) ==
    IF st.pc # "loop" \/ st.rank = 0 THEN st
    ELSE ScanLoop(ScanIter(st, sym), sym)

(* MTF::encode as a function of the table: the table after the call, the   *)
(* rank returned, and `hang`: TRUE when the counter has come back to 0     *)
(* with the loop still running (SpecScan follows the loop beyond that).    *)
MTFEncode(symbols, sym) ==
    IF symbols[0] = sym
    THEN [symbols |-> symbols, rank |-> 0, hang |-> FALSE]
    ELSE LET st == ScanLoop([symbols |-> symbols, next |-> symbols[0],
                             rank |-> 1, pc |-> "loop"], sym)
         IN  [symbols |-> IF st.pc = "found" THEN [st.symbols EXCEPT ![0] = sym]
                          ELSE st.symbols,
              rank    |-> st.rank,
              hang    |-> st.pc # "found"]

\* DecodeShift with the loop running upwards (the .rev() left out): every
\* rank up to `rank` ends with the symbol of rank 0
DecodeShiftUpwards(symbols, rank) ==
    [k \in Ranks |-> IF 1 <= k /\ k <= rank THEN symbols[0] ELSE symbols[k]]

(* MTF::decode.  The loop of lines 84-86 runs i = rank, rank-1, ..., 1, so  *)
(* every symbols[i-1] it reads is still the value from before the call.    *)
DecodeShift(symbols, rank) ==
    [k \in Ranks |-> IF 1 <= k /\ k <= rank THEN symbols[k - 1] ELSE symbols[k]]

MTFDecode(symbols, rank) ==
    LET sym == symbols[rank]
    IN  [symbols |-> [DecodeShift(symbols, rank) EXCEPT ![0] = sym], sym |-> sym]

----------------------------------------------------------------------------
(* Bounds of the model *)

MaxCalls == 4      \* encode/decode pairs of one MTF round trip
ShiftCap == 260    \* swaps followed in one MTF::encode call
MaxLen   == 4      \* length of the input of dc::encode
MaxE     == 3      \* length of an alphabet handed to dc::decode directly
MaxN     == 2      \* output length handed to dc::decode directly
MaxDist  == 3      \* largest distance an arbitrary source returns

MTFSyms   == {0, 1, 2, 255}
ScanSyms  == {0, 1, 255}
InSyms    == {0, 1, 255}
AltTables == {ZeroTable, Alphabetical, StaleTable}

RECURSIVE SeqsUpTo(_, _)
SeqsUpTo(S, n) ==
    IF n = 0 THEN {<<>>}
    ELSE LET shorter == SeqsUpTo(S, n - 1)
         IN  shorter \cup {Append(q, s) : q \in {p \in shorter : Len(p) = n - 1}, s \in S}

Inputs == SeqsUpTo(InSyms, MaxLen)

----------------------------------------------------------------------------
(* dc::encode.  A run is a record of the locals of the function:           *)
(*   mtf, last, unique, distances as in the source (position k of a slice  *)
(*   is element k+1 of the sequence),                                      *)
(*   ret  : the rank the last MTF::encode call returned,                   *)
(*   seed : the rank a first occurrence was seeded at (-1 otherwise),      *)
(*   fail : "none", or the reason the run stopped ("assert118",            *)
(*          "assert126", "assert129", "hang").                             *)

\* lines 98-101, with the buffer encode_simple allocates (line 140)
EncodeEntry(inp, table) ==
    [mtf       |-> table,
     last      |-> [s \in Symbol |-> Len(inp)],
     unique    |-> <<>>,
     distances |-> [k \in 1 .. Len(inp) |-> 0],
     ret       |-> -1,
     seed      |-> -1,
     fail      |-> "none"]

\* EncodeScan with the distance of line 119 off by one (i-base-rank)
EncodeScanOffByOne(st, inp, pos) ==
    LET n    == Len(inp)
        sym  == inp[pos + 1]
        d1   == [st.distances EXCEPT ![pos + 1] = n]
        base == st.last[sym]
        l1   == [st.last EXCEPT ![sym] = pos]
    IN  IF st.fail # "none" THEN st
        ELSE IF base = n
        THEN LET rank == Len(st.unique)
                 r    == MTFEncode([st.mtf EXCEPT ![rank] = sym], sym)
             IN  [st EXCEPT !.mtf = r.symbols, !.last = l1, !.distances = d1,
                            !.unique = IF r.hang THEN @ ELSE Append(@, <<sym, pos>>),
                            !.ret = r.rank, !.seed = rank,
                            !.fail = IF r.hang THEN "hang" ELSE "none"]
        ELSE LET r    == MTFEncode(st.mtf, sym)
                 rank == r.rank
             IN  IF r.hang
                 THEN [st EXCEPT !.mtf = r.symbols, !.last = l1, !.distances = d1,
                                 !.ret = rank, !.seed = -1, !.fail = "hang"]
                 ELSE IF rank > 0 /\ ~(pos >= base + rank + 1)
                 THEN [st EXCEPT !.mtf = r.symbols, !.last = l1, !.distances = d1,
                                 !.ret = rank, !.seed = -1, !.fail = "assert118"]
                 ELSE [st EXCEPT !.mtf = r.symbols, !.last = l1,
                                 !.distances = IF rank > 0
                                               THEN [d1 EXCEPT ![base + 1] = pos - base - rank]
                                               ELSE d1,
                                 !.ret = rank, !.seed = -1]

\* EncodeScan with the mtf.encode(sym) call of line 110 left out: a first
\* occurrence is seeded at its rank and stays there
EncodeScanNoFront(st, inp, pos) ==
    LET n    == Len(inp)
        sym  == inp[pos + 1]
        d1   == [st.distances EXCEPT ![pos + 1] = n]
        base == st.last[sym]
        l1   == [st.last EXCEPT ![sym] = pos]
    IN  IF st.fail # "none" THEN st
        ELSE IF base = n
        THEN LET rank == Len(st.unique)
             IN  [st EXCEPT !.mtf = [st.mtf EXCEPT ![rank] = sym],
                            !.last = l1, !.distances = d1,
                            !.unique = Append(@, <<sym, pos>>),
                            !.ret = rank, !.seed = rank]
        ELSE LET r    == MTFEncode(st.mtf, sym)
                 rank == r.rank
             IN  IF r.hang
                 THEN [st EXCEPT !.mtf = r.symbols, !.last = l1, !.distances = d1,
                                 !.ret = rank, !.seed = -1, !.fail = "hang"]
                 ELSE IF rank > 0 /\ ~(pos >= base + rank + 1)
                 THEN [st EXCEPT !.mtf = r.symbols, !.last = l1, !.distances = d1,
                                 !.ret = rank, !.seed = -1, !.fail = "assert118"]
                 ELSE [st EXCEPT !.mtf = r.symbols, !.last = l1,
                                 !.distances = IF rank > 0
                                               THEN [d1 EXCEPT ![base + 1] = pos - base - rank - 1]
                                               ELSE d1,
                                 !.ret = rank, !.seed = -1]

\* lines 103-121: the body of the scan for position pos
EncodeScan(st, inp, pos) ==
    LET n    == Len(inp)
        sym  == inp[pos + 1]
        d1   == [st.distances EXCEPT ![pos + 1] = n]
        base == st.last[sym]
        l1   == [st.last EXCEPT ![sym] = pos]
    IN  IF st.fail # "none" THEN st
        ELSE IF base = n
        THEN LET rank == Len(st.unique)
                 r    == MTFEncode([st.mtf EXCEPT ![rank] = sym], sym)
             IN  [st EXCEPT !.mtf = r.symbols, !.last = l1, !.distances = d1,
                            !.unique = IF r.hang THEN @ ELSE Append(@, <<sym, pos>>),
                            !.ret = r.rank, !.seed = rank,
                            !.fail = IF r.hang THEN "hang" ELSE "none"]
        ELSE LET r    == MTFEncode(st.mtf, sym)
                 rank == r.rank
             IN  IF r.hang
                 THEN [st EXCEPT !.mtf = r.symbols, !.last = l1, !.distances = d1,
                                 !.ret = rank, !.seed = -1, !.fail = "hang"]
                 ELSE IF rank > 0 /\ ~(pos >= base + rank + 1)
                 THEN [st EXCEPT !.mtf = r.symbols, !.last = l1, !.distances = d1,
                                 !.ret = rank, !.seed = -1, !.fail = "assert118"]
                 ELSE [st EXCEPT !.mtf = r.symbols, !.last = l1,
                                 !.distances = IF rank > 0
                                               THEN [d1 EXCEPT ![base + 1] = pos - base - rank - 1]
                                               ELSE d1,
                                 !.ret = rank, !.seed = -1]

\* EncodeSweep that leaves out the symbol of rank 0
RECURSIVE EncodeSweepSkipFront(_, _, _)
EncodeSweepSkipFront(st, n, rank) ==
    IF st.fail # "none" \/ rank >= Len(st.unique) THEN st
    ELSE IF rank = 0 THEN EncodeSweepSkipFront(st, n, 1)
    ELSE LET sym  == st.mtf[rank]
             base == st.last[sym]
         IN  IF ~(n >= base + rank + 1)
             THEN [st EXCEPT !.fail = "assert126"]
             ELSE EncodeSweepSkipFront([st EXCEPT !.distances[base + 1] = n - base - rank - 1],
                                       n, rank + 1)

\* lines 123-128: the sweep over mtf.symbols.slice_to(unique.len()), from rank on
RECURSIVE EncodeSweep(_, _, _)
EncodeSweep(st, n, rank) ==
    IF st.fail # "none" \/ rank >= Len(st.unique) THEN st
    ELSE LET sym  == st.mtf[rank]
             base == st.last[sym]
         IN  IF ~(n >= base + rank + 1)
             THEN [st EXCEPT !.fail = "assert126"]
             ELSE EncodeSweep([st EXCEPT !.distances[base + 1] = n - base - rank - 1],
                              n, rank + 1)

\* lines 129-130: no slot is left at the sentinel in front of a different symbol
EncodeCheck(st, inp) ==
    LET n == Len(inp)
    IN  IF st.fail # "none" THEN st
        ELSE IF \E k \in 0 .. (n - 2) :
                    st.distances[k + 1] = n /\ inp[k + 1] # inp[k + 2]
        THEN [st EXCEPT !.fail = "assert129"]
        ELSE st

\* FilterSentinel that drops the zero distances instead of the sentinel
RECURSIVE FilterZero(_, _)
FilterZero(ds, n) ==
    IF ds = <<>> THEN <<>>
    ELSE IF Head(ds) # 0 THEN <<Head(ds)>> \o FilterZero(Tail(ds), n)
    ELSE FilterZero(Tail(ds), n)

\* line 145: raw_dist.iter().filter_map(|&d| if d!=N {Some(d)} else {None})
RECURSIVE FilterSentinel(_, _)
FilterSentinel(ds, n) ==
    IF ds = <<>> THEN <<>>
    ELSE IF Head(ds) # n THEN <<Head(ds)>> \o FilterSentinel(Tail(ds), n)
    ELSE FilterSentinel(Tail(ds), n)

\* lines 142-147: the flattened pair encode_simple returns
UniqueSymbols(unique)   == [k \in 1 .. Len(unique) |-> unique[k][1]]
UniqueDistances(unique) == [k \in 1 .. Len(unique) |-> unique[k][2]]
Combined(st, n) == UniqueDistances(st.unique) \o FilterSentinel(st.distances, n)

----------------------------------------------------------------------------
(* dc::decode helpers *)

\* a value fn_dist returns: Ok(d) is d >= 0, Err(e) is -1
Err == -1

\* the closure of decode_simple (lines 236-242), asked for the di+1'th time
SliceSource == IF di + 1 > Len(slice) THEN {Err} ELSE {slice[di + 1]}

\* any callback: whatever distance up to MaxDist, or an error
AnySource == {Err} \cup (0 .. MaxDist)

\* lines 203-206: output[i] = sym for i in from .. to-1 (all in range)
Fill(out, from, to, sym) ==
    [k \in 1 .. Len(out) |-> IF from + 1 <= k /\ k <= to THEN sym ELSE out[k]]

\* Reinsert with a non-strict comparison (future+rank >= next[...])
RECURSIVE ReinsertLoose(_, _, _, _, _)
ReinsertLoose(symbols, nxt, fut, e, rank) ==
    IF rank < e /\ fut + rank >= nxt[symbols[rank]]
    THEN ReinsertLoose([symbols EXCEPT ![rank - 1] = symbols[rank]], nxt, fut, e, rank + 1)
    ELSE [symbols |-> symbols, rank |-> rank]

\* Reinsert that compares the future position without the rank offset
RECURSIVE ReinsertNoOffset(_, _, _, _, _)
ReinsertNoOffset(symbols, nxt, fut, e, rank) ==
    IF rank < e /\ fut > nxt[symbols[rank]]
    THEN ReinsertNoOffset([symbols EXCEPT ![rank - 1] = symbols[rank]], nxt, fut, e, rank + 1)
    ELSE [symbols |-> symbols, rank |-> rank]

\* lines 212-216: the reinsertion scan from rank on; yields the table and the
\* rank the scan stopped at
RECURSIVE Reinsert(_, _, _, _, _)
Reinsert(symbols, nxt, fut, e, rank) ==
    IF rank < e /\ fut + rank > nxt[symbols[rank]]
    THEN Reinsert([symbols EXCEPT ![rank - 1] = symbols[rank]], nxt, fut, e, rank + 1)
    ELSE [symbols |-> symbols, rank |-> rank]

----------------------------------------------------------------------------
(* Idle values of the groups a specification does not use *)

IdleMTF ==
    /\ decTable = ZeroTable /\ before = ZeroTable
    /\ lastSym = 0 /\ lastRank = 0 /\ lastDec = 0 /\ calls = 0

IdleScan ==
    /\ scSymbols = ZeroTable /\ scSym = 0 /\ scNext = 0
    /\ scRank = 0 /\ scShifts = 0 /\ scPc = "idle"

IdleEnc ==
    /\ input = <<>> /\ ei = 0 /\ ePc = "idle"
    /\ enc = EncodeEntry(<<>>, ZeroTable) /\ alt = EncodeEntry(<<>>, ZeroTable)

IdleWire == alphabet = <<>> /\ slice = <<>>

IdleDec ==
    /\ N = 0 /\ output = <<>> /\ di = 0 /\ mtf = ZeroTable
    /\ next = [s \in Symbol |-> 0] /\ E = 0 /\ i = 0 /\ stop = 0 /\ future = 0
    /\ seeds = <<>> /\ insRank = -1 /\ result = "none" /\ dPc = "idle"

----------------------------------------------------------------------------
(* SpecScan: one call of MTF::encode, one swap per step, on any table       *)

ScanTables == {ZeroTable, Alphabetical, StaleTable}

InitScan ==
    /\ scSymbols \in ScanTables /\ scSym \in ScanSyms
    /\ scNext = 0 /\ scRank = 0 /\ scShifts = 0 /\ scPc = "entry"
    /\ IdleMTF /\ IdleEnc /\ IdleWire /\ IdleDec

\* lines 63-67
ScanEntry ==
    /\ scPc = "entry"
    /\ scNext' = scSymbols[0]
    /\ IF scSymbols[0] = scSym
       THEN scPc' = "returned" /\ scRank' = 0
       ELSE scPc' = "loop" /\ scRank' = 1
    /\ UNCHANGED <<scSymbols, scSym, scShifts>>
    /\ UNCHANGED <<mtfVars, encVars, wireVars, decVars>>

\* lines 69-74: one iteration of the loop
ScanShift ==
    /\ scPc = "loop"
    /\ scShifts < ShiftCap
    /\ LET st == ScanIter([symbols |-> scSymbols, next |-> scNext,
                           rank |-> scRank, pc |-> "loop"], scSym)
       IN  /\ scSymbols' = st.symbols
           /\ scNext' = st.next
           /\ scRank' = st.rank
           /\ scPc' = st.pc
    /\ scShifts' = scShifts + 1
    /\ UNCHANGED scSym
    /\ UNCHANGED <<mtfVars, encVars, wireVars, decVars>>

\* lines 76-77
ScanReturn ==
    /\ scPc = "found"
    /\ scSymbols' = [scSymbols EXCEPT ![0] = scSym]
    /\ scPc' = "returned"
    /\ UNCHANGED <<scSym, scNext, scRank, scShifts>>
    /\ UNCHANGED <<mtfVars, encVars, wireVars, decVars>>

NextScan == ScanEntry \/ ScanShift \/ ScanReturn

SpecScan == InitScan /\ [][NextScan]_vars

----------------------------------------------------------------------------
(* SpecMTF: test::roundtrip_mtf, with the encoding table (scSymbols) and    *)
(* the decoding table (decTable) side by side: every rank MTF::encode       *)
(* returns is handed to MTF::decode at once                                *)

InitMTF ==
    /\ scSymbols = Alphabetical /\ decTable = Alphabetical /\ before = Alphabetical
    /\ scSym = 0 /\ scNext = 0 /\ scRank = 0 /\ scShifts = 0 /\ scPc = "idle"
    /\ lastSym = 0 /\ lastRank = 0 /\ lastDec = 0 /\ calls = 0
    /\ IdleEnc /\ IdleWire /\ IdleDec

\* line 265: mtf.encode(sym) is called
MTFEncodeCall ==
    /\ scPc = "idle" /\ calls < MaxCalls
    /\ \E sym \in MTFSyms : scSym' = sym
    /\ before' = scSymbols
    /\ scShifts' = 0
    /\ scPc' = "entry"
    /\ UNCHANGED <<scSymbols, scNext, scRank>>
    /\ UNCHANGED <<decTable, lastSym, lastRank, lastDec, calls>>
    /\ UNCHANGED <<encVars, wireVars, decVars>>

\* line 268: mtf.decode(r) with the rank just returned
MTFDecodeCall ==
    /\ scPc = "returned"
    /\ LET d == MTFDecode(decTable, scRank)
       IN  decTable' = d.symbols /\ lastDec' = d.sym
    /\ lastSym' = scSym
    /\ lastRank' = scRank
    /\ calls' = calls + 1
    /\ scPc' = "idle"
    /\ UNCHANGED <<scSymbols, scSym, scNext, scRank, scShifts, before>>
    /\ UNCHANGED <<encVars, wireVars, decVars>>

\* lines 264 and 267: reset_alphabetical
ResetAlphabetical ==
    /\ scPc = "idle"
    /\ scSymbols' = Alphabetical /\ decTable' = Alphabetical
    /\ UNCHANGED <<scSym, scNext, scRank, scShifts, scPc>>
    /\ UNCHANGED <<before, lastSym, lastRank, lastDec, calls>>
    /\ UNCHANGED <<encVars, wireVars, decVars>>

NextMTF ==
    \/ MTFEncodeCall \/ ScanEntry \/ ScanShift \/ ScanReturn
    \/ MTFDecodeCall \/ ResetAlphabetical

SpecMTF == InitMTF /\ [][NextMTF]_vars

----------------------------------------------------------------------------
(* dc::encode, one input position per step.  The run `enc` starts on       *)
(* MTF::new(), as in encode_simple; the run `alt` reads the same input on   *)
(* another initial table.                                                  *)

\* line 102: one iteration of the scan
EncScan ==
    /\ ePc = "scan" /\ ei < Len(input)
    /\ enc' = EncodeScan(enc, input, ei)
    /\ alt' = EncodeScan(alt, input, ei)
    /\ ei' = ei + 1
    /\ UNCHANGED <<input, ePc>>
    /\ UNCHANGED <<mtfVars, scanVars, wireVars, decVars>>

\* lines 123-128
EncSweep ==
    /\ ePc = "scan" /\ ei = Len(input)
    /\ enc' = EncodeSweep(enc, Len(input), 0)
    /\ alt' = EncodeSweep(alt, Len(input), 0)
    /\ ePc' = "check"
    /\ UNCHANGED <<input, ei>>
    /\ UNCHANGED <<mtfVars, scanVars, wireVars, decVars>>

\* lines 129-131
EncCheck ==
    /\ ePc = "check"
    /\ enc' = EncodeCheck(enc, input)
    /\ alt' = EncodeCheck(alt, input)
    /\ ePc' = "done"
    /\ UNCHANGED <<input, ei>>
    /\ UNCHANGED <<mtfVars, scanVars, wireVars, decVars>>

InitEnc ==
    /\ input \in Inputs
    /\ ei = 0 /\ ePc = "scan"
    /\ enc = EncodeEntry(input, ZeroTable)
    /\ \E t \in AltTables : alt = EncodeEntry(input, t)
    /\ IdleMTF /\ IdleScan /\ IdleWire /\ IdleDec

NextEnc == EncScan \/ EncSweep \/ EncCheck

SpecEnc == InitEnc /\ [][NextEnc]_vars

----------------------------------------------------------------------------
(* dc::decode, one phase of the loop per step.  The actions take the set   *)
(* of values the next fn_dist call may return.                             *)

\* lines 234-236 and 154-170: the call, and the match on the alphabet
DecodeEntry ==
    /\ dPc = "call"
    /\ di' = 0
    /\ mtf' = ZeroTable
    /\ next' = [s \in Symbol |-> N]
    /\ seeds' = <<>> /\ insRank' = -1
    /\ E' = 0 /\ i' = 0 /\ stop' = 0 /\ future' = 0
    /\ IF Len(alphabet) = 0
       THEN /\ output' = [k \in 1 .. N |-> 0]
            /\ result' = IF N = 0 THEN "Ok" ELSE "assert"
            /\ dPc' = "done"
       ELSE IF Len(alphabet) = 1
       THEN /\ output' = [k \in 1 .. N |-> alphabet[1]]
            /\ result' = "Ok"
            /\ dPc' = "done"
       ELSE /\ output' = [k \in 1 .. N |-> 0]
            /\ result' = "none"
            /\ dPc' = "seed"
    /\ UNCHANGED N
    /\ UNCHANGED <<mtfVars, scanVars, encVars, wireVars>>

\* lines 171-179: one iteration over the alphabet
DecodeSeed(src) ==
    /\ dPc = "seed" /\ Len(seeds) < Len(alphabet)
    /\ \E res \in src :
         LET rank == Len(seeds)
             sym  == alphabet[rank + 1]
         IN  IF res = Err
             THEN /\ result' = "Err" /\ dPc' = "done"
                  /\ UNCHANGED <<next, mtf, seeds>>
             ELSE /\ next' = [next EXCEPT ![sym] = res]
                  /\ mtf' = [mtf EXCEPT ![rank] = sym]
                  /\ seeds' = Append(seeds, res)
                  /\ UNCHANGED <<result, dPc>>
    /\ di' = di + 1
    /\ UNCHANGED <<N, output, E, i, stop, future, insRank>>
    /\ UNCHANGED <<mtfVars, scanVars, encVars, wireVars>>

\* lines 180-183 and 198
DecodeErase ==
    /\ dPc = "seed" /\ Len(seeds) = Len(alphabet)
    /\ mtf' = [r \in Ranks |-> IF r >= Len(alphabet) THEN 0 ELSE mtf[r]]
    /\ E' = Len(alphabet)
    /\ i' = 0
    /\ dPc' = "head"
    /\ UNCHANGED <<N, output, di, next, stop, future, seeds, insRank, result>>
    /\ UNCHANGED <<mtfVars, scanVars, encVars, wireVars>>

\* lines 199-206: the loop test and the fill; a write to output[N] ends the call
DecodeFill ==
    /\ dPc = "head" /\ i < N
    /\ LET sym == mtf[0]
           to  == next[mtf[1]]
       IN  /\ stop' = to
           /\ IF to > N
              THEN /\ output' = Fill(output, i, N, sym)
                   /\ i' = N
                   /\ result' = "oob" /\ dPc' = "done"
              ELSE /\ output' = Fill(output, i, to, sym)
                   /\ i' = IF i < to THEN to ELSE i
                   /\ result' = result /\ dPc' = "pull"
    /\ UNCHANGED <<N, di, mtf, next, E, future, seeds, insRank>>
    /\ UNCHANGED <<mtfVars, scanVars, encVars, wireVars>>

\* lines 207-210
DecodePull(src) ==
    /\ dPc = "pull"
    /\ \E res \in src :
         IF res = Err
         THEN result' = "Err" /\ dPc' = "done" /\ UNCHANGED future
         ELSE future' = stop + res /\ dPc' = "reinsert" /\ UNCHANGED result
    /\ di' = di + 1
    /\ UNCHANGED <<N, output, mtf, next, E, i, stop, seeds, insRank>>
    /\ UNCHANGED <<mtfVars, scanVars, encVars, wireVars>>

\* lines 212-225
DecodeReinsert ==
    /\ dPc = "reinsert"
    /\ LET sym == mtf[0]
           r   == Reinsert(mtf, next, future, E, 1)
       IN  /\ mtf' = [r.symbols EXCEPT ![r.rank - 1] = sym]
           /\ next' = [next EXCEPT ![sym] = future + r.rank - 1]
           /\ insRank' = r.rank - 1
    /\ dPc' = "head"
    /\ UNCHANGED <<N, output, di, E, i, stop, future, seeds, result>>
    /\ UNCHANGED <<mtfVars, scanVars, encVars, wireVars>>

\* lines 227-229
DecodeFinish ==
    /\ dPc = "head" /\ ~(i < N)
    /\ result' = IF \E s \in Symbol : next[s] < N \/ next[s] >= N + E
                 THEN "assert"
                 ELSE IF i # N THEN "assert" ELSE "Ok"
    /\ dPc' = "done"
    /\ UNCHANGED <<N, output, di, mtf, next, E, i, stop, future, seeds, insRank>>
    /\ UNCHANGED <<mtfVars, scanVars, encVars, wireVars>>

----------------------------------------------------------------------------
(* SpecDecode: dc::decode called with an explicit alphabet, any output     *)
(* length and any callback                                                 *)

\* the alphabet of k distinct symbols 0, 85, 170, 255, 84, ...
AlphabetOf(k) == [j \in 1 .. k |-> ((j - 1) * 85) % TotalSymbols]
Alphabets     == {AlphabetOf(k) : k \in 0 .. MaxE}

InitDecode ==
    /\ alphabet \in Alphabets /\ slice = <<>>
    /\ N \in 0 .. MaxN
    /\ output = <<>> /\ di = 0 /\ mtf = ZeroTable
    /\ next = [s \in Symbol |-> 0] /\ E = 0 /\ i = 0 /\ stop = 0 /\ future = 0
    /\ seeds = <<>> /\ insRank = -1 /\ result = "none" /\ dPc = "call"
    /\ IdleMTF /\ IdleScan /\ IdleEnc

AnySeed == DecodeSeed(AnySource)
AnyPull == DecodePull(AnySource)

NextDecode ==
    \/ DecodeEntry \/ AnySeed \/ DecodeErase \/ DecodeFill
    \/ AnyPull \/ DecodeReinsert \/ DecodeFinish

SpecDecode == InitDecode /\ [][NextDecode]_vars

----------------------------------------------------------------------------
(* Spec: encode_simple followed by decode_simple, as in test::roundtrip_dc, *)
(* with the length handed to decode_simple left free                       *)

Init ==
    /\ input \in Inputs
    /\ ei = 0 /\ ePc = "simple"
    /\ enc = EncodeEntry(input, ZeroTable)
    /\ alt = EncodeEntry(input, ZeroTable)
    /\ IdleMTF /\ IdleScan /\ IdleWire /\ IdleDec

\* lines 136-141: encode_simple returns at once on the empty input
EncodeSimpleEntry ==
    /\ ePc = "simple"
    /\ ePc' = IF Len(input) = 0 THEN "flat" ELSE "scan"
    /\ UNCHANGED <<input, ei, enc, alt>>
    /\ UNCHANGED <<mtfVars, scanVars, wireVars, decVars>>

\* lines 142-147
EncodeSimpleReturn ==
    /\ ePc = "done" /\ enc.fail = "none"
    /\ alphabet' = UniqueSymbols(enc.unique)
    /\ slice' = Combined(enc, Len(input))
    /\ ePc' = "flat"
    /\ UNCHANGED <<input, ei, enc, alt>>
    /\ UNCHANGED <<mtfVars, scanVars, decVars>>

\* line 257 / line 233: decode_simple(n, alphabet, distances)
DecodeSimpleCall ==
    /\ ePc = "flat" /\ dPc = "idle"
    /\ \E n \in 0 .. (MaxLen + 1) : N' = n
    /\ dPc' = "call"
    /\ UNCHANGED <<output, di, mtf, next, E, i, stop, future, seeds, insRank, result>>
    /\ UNCHANGED <<mtfVars, scanVars, encVars, wireVars>>

SimpleSeed == DecodeSeed(SliceSource)
SimplePull == DecodePull(SliceSource)

\* lines 243-244: unwrap() of the result, then the output is returned
DecodeSimpleReturn ==
    /\ dPc = "done"
    /\ dPc' = IF result = "Ok" THEN "returned" ELSE "failed"
    /\ UNCHANGED <<N, output, di, mtf, next, E, i, stop, future, seeds, insRank, result>>
    /\ UNCHANGED <<mtfVars, scanVars, encVars, wireVars>>

Next ==
    \/ EncodeSimpleEntry \/ EncScan \/ EncSweep \/ EncCheck \/ EncodeSimpleReturn
    \/ DecodeSimpleCall \/ DecodeEntry \/ SimpleSeed \/ DecodeErase \/ DecodeFill
    \/ SimplePull \/ DecodeReinsert \/ DecodeFinish \/ DecodeSimpleReturn

Spec == Init /\ [][Next]_vars

----------------------------------------------------------------------------
(* Reference definitions used by the properties *)

AllSame(inp) == \A k \in 1 .. Len(inp) : inp[k] = inp[1]

\* position of the next occurrence of inp[k] after position k, or Len(inp)
NextOccurrence(inp, k) ==
    LET later == {j \in (k + 1) .. (Len(inp) - 1) : inp[j + 1] = inp[k + 1]}
    IN  IF later = {} THEN Len(inp)
        ELSE CHOOSE j \in later : \A m \in later : j <= m

\* number of distinct symbols other than inp[k] in positions k+1 .. j-1
DistinctBetween(inp, k, j) ==
    Cardinality({inp[m + 1] : m \in (k + 1) .. (j - 1)} \ {inp[k + 1]})

\* position k is the last one of a run of equal symbols
EndsRun(inp, k) == k = Len(inp) - 1 \/ inp[k + 2] # inp[k + 1]

\* the distinct symbols of the first n positions, most recent first
RECURSIVE MostRecentFirst(_, _)
MostRecentFirst(inp, n) ==
    IF n = 0 THEN <<>>
    ELSE <<inp[n]>> \o SelectSeq(MostRecentFirst(inp, n - 1), LAMBDA s : s # inp[n])

DistinctIn(inp, n) == {inp[k] : k \in 1 .. n}

StrictlyIncreasing(q) == \A k \in 1 .. (Len(q) - 1) : q[k] < q[k + 1]

NoRepeat(q) == \A j, k \in 1 .. Len(q) : j # k => q[j] # q[k]

----------------------------------------------------------------------------
(* Properties *)

\* C1: DC round trip.  Whenever decode_simple is given the length of the
\* input together with the alphabet and the distances encode_simple made of
\* it, encode and decode run without a failed assertion, an out-of-range
\* write or an end-of-stream error, and the output returned is the input.
RoundTripDC ==
    /\ enc.fail = "none"
    /\ (dPc # "idle" /\ N = Len(input)) =>
          /\ result \in {"none", "Ok"}
          /\ dPc # "failed"
          /\ dPc \in {"done", "returned"} => (result = "Ok" /\ output = input)

RoundTripDCWitness ==
    /\ dPc = "returned" /\ N = Len(input)
    /\ Len(input) >= 3 /\ Len(alphabet) >= 2
    /\ output = input

\* C2: MTF round trip in lockstep.  From two alphabetical tables, the
\* symbol MTF::decode returns for the rank MTF::encode returned is the symbol
\* encoded, and between two pairs of calls the two tables are equal.
LockstepMTF ==
    /\ scPc = "idle" => scSymbols = decTable
    /\ calls > 0 => lastDec = lastSym

LockstepMTFWitness ==
    /\ scPc = "idle" /\ calls >= 2 /\ lastRank >= 2
    /\ scSymbols # Alphabetical /\ lastDec = lastSym

\* C3: malformed input is a recoverable error.  For every length N handed
\* to decode, decode ends by returning Ok or Err (no failed assertion, no
\* out-of-range write), and it returns Ok only for the length encoded.
DecodeRecoverable ==
    dPc \in {"done", "returned", "failed"} =>
        /\ result \in {"Ok", "Err"}
        /\ result = "Ok" => N = Len(input)

\* C4: MTF::encode is move-to-front.  On a permutation, the rank returned
\* is the rank sym held before the call; afterwards sym is at rank 0, the
\* symbols of the ranks below it have moved up by one, the ranks above it are
\* unchanged and the table is still a permutation; a symbol at rank 0 yields
\* rank 0 and no change.
MoveToFront ==
    (scPc = "returned" /\ IsPermutation(before)) =>
        /\ before[scRank] = scSym
        /\ scSymbols[0] = scSym
        /\ \A k \in 0 .. (scRank - 1) : scSymbols[k + 1] = before[k]
        /\ \A k \in (scRank + 1) .. (TotalSymbols - 1) : scSymbols[k] = before[k]
        /\ IsPermutation(scSymbols)
        /\ before[0] = scSym => (scRank = 0 /\ scSymbols = before)

MoveToFrontWitness ==
    /\ scPc = "returned" /\ scRank >= 2
    /\ IsPermutation(before) /\ before # Alphabetical

\* C5 as stated: for an input of N >= 1 copies of one symbol a, encode_simple
\* returns the alphabet [a] and a distance stream of length 1, the seed of a.
SingletonSeedOnly ==
    (ePc = "flat" /\ Len(input) >= 1 /\ AllSame(input)) =>
        /\ alphabet = <<input[1]>>
        /\ Len(slice) = 1
        /\ slice[1] = 0

\* C5 as amended: for an input of N >= 1 copies of one symbol a, encode_simple
\* returns the alphabet [a] and a distance stream of length 2: the seed 0 of a
\* followed by the distance 0 the final sweep writes at position N-1.
SingletonSeedAndSweep ==
    (ePc = "flat" /\ Len(input) >= 1 /\ AllSame(input)) =>
        /\ alphabet = <<input[1]>>
        /\ slice = <<0, 0>>

SingletonWitness ==
    /\ ePc = "flat" /\ Len(input) >= 2 /\ AllSame(input)
    /\ slice = <<0, 0>>

\* C6: distances match the reference definition.  After encode, every
\* position k that ends a run holds j - k - 1 - D, with j the next occurrence
\* of input[k] (N when there is none) and D the number of other distinct
\* symbols in between.
DistanceOf(st, k) ==
    st.distances[k + 1] =
        NextOccurrence(input, k) - k - 1 - DistinctBetween(input, k, NextOccurrence(input, k))

DistancesMatchReference ==
    ePc = "done" =>
        \A k \in 0 .. (Len(input) - 1) :
            EndsRun(input, k) => (DistanceOf(enc, k) /\ DistanceOf(alt, k))

DistancesWitness ==
    /\ ePc = "done"
    /\ \E k \in 0 .. (Len(input) - 1) :
          /\ EndsRun(input, k)
          /\ NextOccurrence(input, k) < Len(input)
          /\ DistinctBetween(input, k, NextOccurrence(input, k)) >= 2
          /\ DistanceOf(enc, k)

\* C7: the assertions of encode hold.  No run of encode stops on an
\* assertion (or fails to return from MTF::encode), and after the full pass
\* every slot still at the sentinel N is followed by a repeat of its symbol.
SentinelOnlyInRuns(st) ==
    \A k \in 0 .. (Len(input) - 1) :
        st.distances[k + 1] = Len(input) =>
            (k + 1 < Len(input) /\ input[k + 2] = input[k + 1])

EncodeAssertionsHold ==
    /\ enc.fail = "none" /\ alt.fail = "none"
    /\ ePc = "done" => (SentinelOnlyInRuns(enc) /\ SentinelOnlyInRuns(alt))

EncodeAssertionsWitness ==
    /\ ePc = "done" /\ enc.fail = "none"
    /\ \E k \in 0 .. (Len(input) - 1) : enc.distances[k + 1] = Len(input)
    /\ Len(enc.unique) >= 2

\* C8: decode keeps the table sorted by next occurrence.  With an alphabet
\* of E >= 2 distinct symbols seeded with strictly increasing distances, at
\* the head of the main loop next[] is strictly increasing along the first E
\* ranks, and a reinsertion puts the symbol of rank 0 at a rank >= 1.
SeededAsEncode ==
    /\ E >= 2 /\ Len(seeds) = E
    /\ NoRepeat(alphabet) /\ StrictlyIncreasing(seeds)

SortedByNext ==
    (dPc = "head" /\ SeededAsEncode) =>
        /\ \A r \in 0 .. (E - 2) : next[mtf[r]] < next[mtf[r + 1]]
        /\ insRank # -1 => insRank >= 1

SortedByNextWitness ==
    /\ dPc = "head" /\ SeededAsEncode /\ E >= 3
    /\ insRank >= 2 /\ i > 0 /\ i < N

\* C9: MTF::encode terminates.  The scan makes at most 255 swaps; by then it
\* has found the symbol or failed the assertion of line 74, so that the u8
\* counter is never back at 0 with the loop still running.
EncodeTerminates ==
    /\ scShifts <= RankMod - 1
    /\ scShifts = RankMod - 1 => scPc \in {"found", "returned", "failed"}
    /\ scPc = "loop" => scRank # 0

\* C10: encode does not depend on the initial table.  The run on another
\* initial table has the same unique list and the same distances as the run
\* on MTF::new(); in both, the first U table entries are the symbols seen so
\* far, most recent first, and the MTF::encode call of a first occurrence
\* returns the rank it was seeded at, the number of symbols seen before.
TableTracksInput(st) ==
    /\ Len(st.unique) = Cardinality(DistinctIn(input, ei))
    /\ \A r \in 0 .. (Len(st.unique) - 1) :
          st.mtf[r] = MostRecentFirst(input, ei)[r + 1]
    /\ st.seed # -1 =>
          (st.ret = st.seed /\ st.seed = Cardinality(DistinctIn(input, ei - 1)))

IndependentOfTable ==
    /\ alt.unique = enc.unique
    /\ alt.distances = enc.distances
    /\ alt.fail = enc.fail
    /\ TableTracksInput(enc) /\ TableTracksInput(alt)

IndependentOfTableWitness ==
    /\ ePc = "done" /\ alt.mtf # enc.mtf
    /\ Len(enc.unique) >= 3 /\ alt.unique = enc.unique
    /\ alt.distances = enc.distances

====
